---- MODULE Spec2Model ----
(***************************************************************************)
(* Model of src/binance_bot.py: the BinanceBot order placement handlers    *)
(* (place_market_order, place_limit_order, place_stop_limit_order) and     *)
(* cancel_order, together with the exchange client they call.              *)
(*                                                                         *)
(* A Python str is a sequence of one-character strings, so that            *)
(* str.upper() is computed character by character.  A float argument is    *)
(* an integer; the handlers only compare it with 0.  A dict is a function  *)
(* whose DOMAIN is the dict's key set.  The exchange client is the         *)
(* environment: each call either returns a payload or raises.              *)
(*                                                                         *)
(* A handler runs in one action, from its entry to its return.  The state  *)
(* records the invocation: the method and its arguments, the client calls  *)
(* it issued in order (with what each returned or raised), the log lines   *)
(* it emitted and its return value.                                        *)
(***************************************************************************)
EXTENDS Integers, Sequences, FiniteSets

VARIABLES pc, op, args, calls, log, ret

vars == <<pc, op, args, calls, log, ret>>

----------------------------------------------------------------------------
(* Bounds *)

\* numeric arguments (quantity, price, stop_price, limit_price) range over
\* -MaxNum .. MaxNum
MaxNum == 1

\* order ids passed to cancel_order range over 1 .. MaxOrderId
MaxOrderId == 2

Nums == (0 - MaxNum) .. MaxNum

----------------------------------------------------------------------------
(* Strings *)

LowerChars == <<"a","b","c","d","e","f","g","h","i","j","k","l","m",
                "n","o","p","q","r","s","t","u","v","w","x","y","z">>

UpperChars == <<"A","B","C","D","E","F","G","H","I","J","K","L","M",
                "N","O","P","Q","R","S","T","U","V","W","X","Y","Z">>

\* str.upper() on one character
UpperChar(c) ==
  IF \E i \in 1..Len(LowerChars) : LowerChars[i] = c
    THEN UpperChars[CHOOSE i \in 1..Len(LowerChars) : LowerChars[i] = c]
    ELSE c

\* str.upper()
Upper(s) == [i \in 1..Len(s) |-> UpperChar(s[i])]

BUY == <<"B","U","Y">>
SELL == <<"S","E","L","L">>
GTC == <<"G","T","C">>
IOC == <<"I","O","C">>
FOK == <<"F","O","K">>
BTCUSDT == <<"B","T","C","U","S","D","T">>
ETHUSDT == <<"E","T","H","U","S","D","T">>

\* the operator's inputs
SymbolInputs == { BTCUSDT, <<"b","t","c","u","s","d","t">>, <<"D","O","G","E">> }

SideInputs == { BUY, <<"b","u","y">>, <<"S","e","l","l">>, <<"h","o","l","d">> }

TifInputs == { GTC, <<"i","o","c">>, <<"F","o","k">>, <<"D","A","Y">> }

----------------------------------------------------------------------------
(* The exchange client: what a call returns or raises *)

\* futures_exchange_info(): the payloads and failures
ExchangeInfoOutcomes ==
  { [kind |-> "raise", exc |-> "BinanceRequestException",
     message |-> "Invalid Response"],
    [kind |-> "return",
     payload |-> [symbols |-> <<[symbol |-> BTCUSDT], [symbol |-> ETHUSDT]>>]],
    [kind |-> "return", payload |-> [symbols |-> <<[symbol |-> ETHUSDT]>>]],
    [kind |-> "return", payload |-> [symbols |-> <<>>]],
    [kind |-> "return",
     payload |-> [symbols |-> <<[symbol |-> BTCUSDT], [pair |-> ETHUSDT]>>]],
    [kind |-> "return", payload |-> [code |-> -1003]] }

OrderFields == [orderId |-> 1, algoId |-> 7, status |-> "NEW"]

\* the dicts futures_create_order may return
OrderResponses ==
  { [k \in ks |-> OrderFields[k]] : ks \in SUBSET {"orderId", "algoId", "status"} }

\* futures_create_order: a response dict, or one of the exceptions
CreateOrderOutcomes ==
  { [kind |-> "return", order |-> r] : r \in OrderResponses }
  \cup
  { [kind |-> "raise", exc |-> "BinanceAPIException",
     message |-> "Margin is insufficient", code |-> -2019, status_code |-> 400],
    [kind |-> "raise", exc |-> "BinanceRequestException",
     message |-> "Invalid Response"],
    [kind |-> "raise", exc |-> "Exception", message |-> "timed out"] }

\* futures_cancel_order(symbol, orderId)
CancelOrderOutcomes ==
  { [kind |-> "return", order |-> [orderId |-> 1, status |-> "CANCELED"]],
    [kind |-> "raise", exc |-> "BinanceAPIException",
     message |-> "Unknown order sent", code |-> -2011, status_code |-> 400],
    [kind |-> "raise", exc |-> "Exception", message |-> "timed out"] }

\* str(e)
ExcStr(e) ==
  IF e.exc = "BinanceAPIException"
    THEN <<"APIError", e.code, e.message>>
    ELSE <<e.exc, e.message>>

----------------------------------------------------------------------------
(* Results of a handler *)

None == [kind |-> "None"]

Returned(order) == [kind |-> "dict", value |-> order]

LogError(m, d) == [level |-> "error", msg |-> m, detail |-> d]

LogInfo(m, d) == [level |-> "info", msg |-> m, detail |-> d]

LogWarning(m, d) == [level |-> "warning", msg |-> m, detail |-> d]

\* one call on self.client
Call(api, params, outcome) == [api |-> api, params |-> params, outcome |-> outcome]

----------------------------------------------------------------------------
(* _validate_symbol *)

\* fail-open variant: an unreadable catalog validates the symbol
ValidateSymbolOnErrorOpen == TRUE

\* the except branch: what _validate_symbol answers when the catalog
\* could not be read
ValidateSymbolOnError == FALSE

\* variant that only checks that the catalog lists something
SymbolInListNonEmpty(symbol, symbols) == Len(symbols) > 0

\* symbol.upper() in symbols
SymbolInList(symbol, symbols) ==
  \E i \in 1..Len(symbols) : symbols[i] = Upper(symbol)

ValidateSymbol(symbol, info) ==
  LET c == <<Call("futures_exchange_info", <<>>, info)>>
      failed == [calls |-> c,
                 log |-> <<LogError("Verification of input symbol failed", <<>>)>>,
                 ok |-> ValidateSymbolOnError]
  IN IF info.kind = "raise" THEN failed
     ELSE IF "symbols" \notin DOMAIN info.payload THEN failed
     ELSE IF \E i \in 1..Len(info.payload.symbols) :
                "symbol" \notin DOMAIN info.payload.symbols[i] THEN failed
     ELSE [calls |-> c, log |-> <<>>,
           ok |-> SymbolInList(symbol,
                    [i \in 1..Len(info.payload.symbols) |->
                        info.payload.symbols[i].symbol])]

----------------------------------------------------------------------------
(* Local checks of the place handlers *)

SideValid(side) == side \in {BUY, SELL}

\* variant that lets a zero quantity through
QuantityInvalidStrict(quantity) == quantity < 0

QuantityInvalid(quantity) == quantity <= 0

PriceInvalid(price) == price <= 0

TimeInForceValid(time_in_force) == time_in_force \in {FOK, GTC, IOC}

\* variant that re-issues the call after an exception
CreateOrderRetry(params, create) ==
  IF create.kind = "raise"
    THEN <<Call("futures_create_order", params, create),
           Call("futures_create_order", params, create)>>
    ELSE <<Call("futures_create_order", params, create)>>

\* self.client.futures_create_order, issued once
CreateOrder(params, create) == <<Call("futures_create_order", params, create)>>

\* _log_request
LogRequest(order_type, params) ==
  << LogInfo("API Request - Order type", <<order_type>>),
     LogInfo("Params", <<params>>) >>

\* _log_response
LogResponse(response) == << LogInfo("API Response", <<response>>) >>

----------------------------------------------------------------------------
(* place_market_order *)

\* the try block of place_market_order
TryMarketOrder(params, create) ==
  LET c == CreateOrder(params, create)
      req == LogRequest("MARKET", params)
      unexpected(l, e) ==
        [calls |-> c,
         log |-> l \o <<LogError("Unexpected error occured while placing market order", e)>>,
         ret |-> None]
  IN IF create.kind = "raise"
       THEN IF create.exc = "BinanceAPIException"
              THEN [calls |-> c,
                    log |-> req \o <<LogError("Binance API Error",
                                        <<create.status_code, create.message>>)>>,
                    ret |-> None]
            ELSE IF create.exc = "BinanceRequestException"
              THEN [calls |-> c,
                    log |-> req \o <<LogError("Binance Request Error", ExcStr(create))>>,
                    ret |-> None]
            ELSE unexpected(req, ExcStr(create))
     ELSE LET order == create.order
              l1 == req \o LogResponse(order)
                        \o <<LogInfo("Market order is placed.", <<>>)>>
          IN IF "orderId" \notin DOMAIN order
               THEN unexpected(l1, <<"KeyError", "orderId">>)
             ELSE IF "status" \notin DOMAIN order
               THEN unexpected(l1 \o <<LogInfo("Order ID", <<order.orderId>>)>>,
                               <<"KeyError", "status">>)
             ELSE [calls |-> c,
                   log |-> l1 \o <<LogInfo("Order ID", <<order.orderId>>),
                                   LogInfo("Status", <<order.status>>)>>,
                   ret |-> Returned(order)]

\* variant that looks the symbol up before it checks the side
PlaceMarketOrderLookupFirst(symbol0, side0, quantity, info, create) ==
  LET side == Upper(side0)
      symbol == Upper(symbol0)
      v == ValidateSymbol(symbol, info)
      params == [symbol |-> symbol, side |-> side, type |-> "MARKET",
                 quantity |-> quantity]
      t == TryMarketOrder(params, create)
  IN IF ~v.ok
       THEN [calls |-> v.calls,
             log |-> v.log \o <<LogError("Invalid Symbol", <<symbol>>)>>,
             ret |-> None]
     ELSE IF ~SideValid(side)
       THEN [calls |-> v.calls,
             log |-> v.log \o <<LogError("Invalid side", <<side>>)>>,
             ret |-> None]
     ELSE IF QuantityInvalid(quantity)
       THEN [calls |-> v.calls,
             log |-> v.log \o <<LogError("Invalid quantity", <<quantity>>)>>,
             ret |-> None]
     ELSE [calls |-> v.calls \o t.calls, log |-> v.log \o t.log, ret |-> t.ret]

PlaceMarketOrder(symbol0, side0, quantity, info, create) ==
  LET side == Upper(side0)
      symbol == Upper(symbol0)
      v == ValidateSymbol(symbol, info)
      params == [symbol |-> symbol, side |-> side, type |-> "MARKET",
                 quantity |-> quantity]
      t == TryMarketOrder(params, create)
  IN IF ~SideValid(side)
       THEN [calls |-> <<>>, log |-> <<LogError("Invalid side", <<side>>)>>,
             ret |-> None]
     ELSE IF ~v.ok
       THEN [calls |-> v.calls,
             log |-> v.log \o <<LogError("Invalid Symbol", <<symbol>>)>>,
             ret |-> None]
     ELSE IF QuantityInvalid(quantity)
       THEN [calls |-> v.calls,
             log |-> v.log \o <<LogError("Invalid quantity", <<quantity>>)>>,
             ret |-> None]
     ELSE [calls |-> v.calls \o t.calls, log |-> v.log \o t.log, ret |-> t.ret]

----------------------------------------------------------------------------
(* place_limit_order *)

\* the try block of place_limit_order
TryLimitOrder(params, create) ==
  LET c == CreateOrder(params, create)
      req == LogRequest("LIMIT", params)
      unexpected(l, e) ==
        [calls |-> c,
         log |-> l \o <<LogError("Unexpected error placing limit order", e)>>,
         ret |-> None]
  IN IF create.kind = "raise"
       THEN IF create.exc = "BinanceAPIException"
              THEN [calls |-> c,
                    log |-> req \o <<LogError("Binance API Error",
                                        <<create.status_code, create.message>>)>>,
                    ret |-> None]
            ELSE IF create.exc = "BinanceRequestException"
              THEN [calls |-> c,
                    log |-> req \o <<LogError("Binance Request Error", ExcStr(create))>>,
                    ret |-> None]
            ELSE unexpected(req, ExcStr(create))
     ELSE LET order == create.order
              l1 == req \o LogResponse(order)
                        \o <<LogInfo("Limit order has been placed", <<>>)>>
          IN IF "orderId" \notin DOMAIN order
               THEN unexpected(l1, <<"KeyError", "orderId">>)
             ELSE IF "status" \notin DOMAIN order
               THEN unexpected(l1 \o <<LogInfo("Order ID", <<order.orderId>>)>>,
                               <<"KeyError", "status">>)
             ELSE [calls |-> c,
                   log |-> l1 \o <<LogInfo("Order ID", <<order.orderId>>),
                                   LogInfo("Status", <<order.status>>)>>,
                   ret |-> Returned(order)]

PlaceLimitOrder(symbol0, side0, quantity, price, tif0, info, create) ==
  LET side == Upper(side0)
      symbol == Upper(symbol0)
      time_in_force == Upper(tif0)
      v == ValidateSymbol(symbol, info)
      params == [symbol |-> symbol, side |-> side, type |-> "LIMIT",
                 quantity |-> quantity, price |-> price,
                 timeInForce |-> time_in_force]
      t == TryLimitOrder(params, create)
      fail(msg, d) == [calls |-> v.calls, log |-> v.log \o <<LogError(msg, d)>>,
                       ret |-> None]
  IN IF ~SideValid(side)
       THEN [calls |-> <<>>, log |-> <<LogError("Invalid side", <<side>>)>>,
             ret |-> None]
     ELSE IF ~v.ok THEN fail("Invalid symbol", <<symbol>>)
     ELSE IF QuantityInvalid(quantity) THEN fail("Invalid quantity", <<quantity>>)
     ELSE IF PriceInvalid(price) THEN fail("Invalid price", <<price>>)
     ELSE IF ~TimeInForceValid(time_in_force)
       THEN fail("Invalid time_in_force", <<time_in_force>>)
     ELSE [calls |-> v.calls \o t.calls, log |-> v.log \o t.log, ret |-> t.ret]

----------------------------------------------------------------------------
(* place_stop_limit_order *)

\* variant with the two price fields swapped
StopLimitParamsSwapped(symbol, side, quantity, stop_price, limit_price, time_in_force) ==
  [symbol |-> symbol, side |-> side, type |-> "STOP", quantity |-> quantity,
   price |-> stop_price, stopPrice |-> limit_price,
   timeInForce |-> time_in_force]

\* the params dict of place_stop_limit_order
StopLimitParams(symbol, side, quantity, stop_price, limit_price, time_in_force) ==
  [symbol |-> symbol, side |-> side, type |-> "STOP", quantity |-> quantity,
   price |-> limit_price, stopPrice |-> stop_price,
   timeInForce |-> time_in_force]

\* the try block of place_stop_limit_order
TryStopLimitOrder(params, create) ==
  LET c == CreateOrder(params, create)
      req == LogRequest("STOP_LIMIT", params)
  IN IF create.kind = "raise"
       THEN [calls |-> c,
             log |-> req \o <<LogError("Error placing stop-limit order",
                                       ExcStr(create))>>,
             ret |-> None]
     ELSE LET order == create.order
              l1 == req \o LogResponse(order)
                        \o <<LogInfo("Stop-limit order placed successfully", <<>>)>>
              id == IF "orderId" \in DOMAIN order
                      THEN LogInfo("Order ID", <<order.orderId>>)
                    ELSE IF "algoId" \in DOMAIN order
                      THEN LogInfo("Algo ID", <<order.algoId>>)
                    ELSE LogWarning("Order placed but no orderId/algoId returned", <<>>)
          IN [calls |-> c, log |-> l1 \o <<id>>, ret |-> Returned(order)]

PlaceStopLimitOrder(symbol0, side0, quantity, stop_price, limit_price, tif0, info, create) ==
  LET side == Upper(side0)
      symbol == Upper(symbol0)
      time_in_force == Upper(tif0)
      v == ValidateSymbol(symbol, info)
      params == StopLimitParams(symbol, side, quantity, stop_price, limit_price,
                                time_in_force)
      t == TryStopLimitOrder(params, create)
  IN IF ~SideValid(side)
       THEN [calls |-> <<>>, log |-> <<LogError("Invalid side", <<side>>)>>,
             ret |-> None]
     ELSE IF ~v.ok
       THEN [calls |-> v.calls,
             log |-> v.log \o <<LogError("Invalid symbol", <<symbol>>)>>,
             ret |-> None]
     ELSE [calls |-> v.calls \o t.calls, log |-> v.log \o t.log, ret |-> t.ret]

----------------------------------------------------------------------------
(* cancel_order *)

CancelOrder(symbol0, order_id, cancel) ==
  LET c == <<Call("futures_cancel_order",
                  [symbol |-> Upper(symbol0), orderId |-> order_id], cancel)>>
  IN IF cancel.kind = "raise"
       THEN [calls |-> c,
             log |-> <<LogError("Error cancelling order", ExcStr(cancel))>>,
             ret |-> None]
     ELSE [calls |-> c,
           log |-> <<LogInfo("Order cancelled successfully", <<order_id>>)>>,
           ret |-> Returned(cancel.order)]

----------------------------------------------------------------------------------------------------------------------------------------
(* The state machine: a caller invokes one BinanceBot method at a time     *)
(* (the client is synchronous and single-threaded); the handler runs to    *)
(* its return; nothing of the invocation is kept afterwards.               *)

Init ==
  /\ pc = "idle"
  /\ op = "none"
  /\ args = <<>>
  /\ calls = <<>>
  /\ log = <<>>
  /\ ret = None

\* entry of a method: the caller's arguments are bound
Invoke(name, a) ==
  /\ pc = "idle"
  /\ pc' = "called"
  /\ op' = name
  /\ args' = a
  /\ UNCHANGED <<calls, log, ret>>

\* a handler has run to its return statement
Finish(r) ==
  /\ pc' = "returned"
  /\ calls' = r.calls
  /\ log' = r.log
  /\ ret' = r.ret
  /\ UNCHANGED <<op, args>>

CallPlaceMarketOrder ==
  \E symbol \in SymbolInputs, side \in SideInputs, quantity \in Nums :
    Invoke("place_market_order",
           [symbol |-> symbol, side |-> side, quantity |-> quantity])

CallPlaceLimitOrder ==
  \E symbol \in SymbolInputs, side \in SideInputs, quantity \in Nums,
     price \in Nums, tif \in TifInputs :
    Invoke("place_limit_order",
           [symbol |-> symbol, side |-> side, quantity |-> quantity,
            price |-> price, time_in_force |-> tif])

CallPlaceStopLimitOrder ==
  \E symbol \in SymbolInputs, side \in SideInputs, quantity \in Nums,
     stop_price \in Nums, limit_price \in Nums, tif \in TifInputs :
    Invoke("place_stop_limit_order",
           [symbol |-> symbol, side |-> side, quantity |-> quantity,
            stop_price |-> stop_price, limit_price |-> limit_price,
            time_in_force |-> tif])

CallCancelOrder ==
  \E symbol \in SymbolInputs, order_id \in 1..MaxOrderId :
    Invoke("cancel_order", [symbol |-> symbol, order_id |-> order_id])

DoPlaceMarketOrder ==
  /\ pc = "called"
  /\ op = "place_market_order"
  /\ \E info \in ExchangeInfoOutcomes, create \in CreateOrderOutcomes :
       Finish(PlaceMarketOrder(args.symbol, args.side, args.quantity,
                               info, create))

DoPlaceLimitOrder ==
  /\ pc = "called"
  /\ op = "place_limit_order"
  /\ \E info \in ExchangeInfoOutcomes, create \in CreateOrderOutcomes :
       Finish(PlaceLimitOrder(args.symbol, args.side, args.quantity,
                              args.price, args.time_in_force, info, create))

DoPlaceStopLimitOrder ==
  /\ pc = "called"
  /\ op = "place_stop_limit_order"
  /\ \E info \in ExchangeInfoOutcomes, create \in CreateOrderOutcomes :
       Finish(PlaceStopLimitOrder(args.symbol, args.side, args.quantity,
                                  args.stop_price, args.limit_price,
                                  args.time_in_force, info, create))

DoCancelOrder ==
  /\ pc = "called"
  /\ op = "cancel_order"
  /\ \E cancel \in CancelOrderOutcomes :
       Finish(CancelOrder(args.symbol, args.order_id, cancel))

\* the method has returned to its caller; the request, the result and the
\* trace of the invocation are dropped
Return ==
  /\ pc = "returned"
  /\ pc' = "idle"
  /\ op' = "none"
  /\ args' = <<>>
  /\ calls' = <<>>
  /\ log' = <<>>
  /\ ret' = None

Next ==
  \/ CallPlaceMarketOrder
  \/ CallPlaceLimitOrder
  \/ CallPlaceStopLimitOrder
  \/ CallCancelOrder
  \/ DoPlaceMarketOrder
  \/ DoPlaceLimitOrder
  \/ DoPlaceStopLimitOrder
  \/ DoCancelOrder
  \/ Return

Spec == Init /\ [][Next]_vars

----------------------------------------------------------------------------
(* Reading an invocation *)

PlaceOps == {"place_market_order", "place_limit_order", "place_stop_limit_order"}

Done == pc = "returned"

\* positions in the trace of the calls of one client method
CallsOf(api) == { i \in 1..Len(calls) : calls[i].api = api }

CreateCalls == CallsOf("futures_create_order")

InfoCalls == CallsOf("futures_exchange_info")

\* the payload of futures_exchange_info lists the (upper-cased) symbol
Listed(symbol, outcome) ==
  /\ outcome.kind = "return"
  /\ "symbols" \in DOMAIN outcome.payload
  /\ \A i \in 1..Len(outcome.payload.symbols) :
        "symbol" \in DOMAIN outcome.payload.symbols[i]
  /\ \E i \in 1..Len(outcome.payload.symbols) :
        outcome.payload.symbols[i].symbol = Upper(symbol)

\* the catalog could not be read: the fetch raised or the payload is unusable
Unusable(outcome) ==
  \/ outcome.kind = "raise"
  \/ "symbols" \notin DOMAIN outcome.payload
  \/ \E i \in 1..Len(outcome.payload.symbols) :
        "symbol" \notin DOMAIN outcome.payload.symbols[i]

\* the symbol was confirmed by a catalog fetched before position i of the trace
ConfirmedBefore(symbol, i) ==
  \E j \in InfoCalls : j < i /\ Listed(symbol, calls[j].outcome)

Confirmed(symbol) == ConfirmedBefore(symbol, Len(calls) + 1)

CaseInsensitiveSide(side) == Upper(side) \in {BUY, SELL}

CaseInsensitiveTif(tif) == Upper(tif) \in {FOK, GTC, IOC}

\* The handlers return None on every failure; the kind of the failure is
\* the error line logged last.
FailureKind ==
  IF ret # None \/ Len(log) = 0 \/ log[Len(log)].level # "error" THEN "none"
  ELSE LET m == log[Len(log)].msg
       IN CASE m = "Invalid side" -> "InvalidSide"
            [] m \in {"Invalid Symbol", "Invalid symbol"} -> "InvalidSymbol"
            [] m = "Invalid quantity" -> "InvalidQuantity"
            [] m = "Invalid price" -> "InvalidPrice"
            [] m = "Invalid time_in_force" -> "InvalidTimeInForce"
            [] m = "Binance API Error" -> "ApiError"
            [] m = "Binance Request Error" -> "RequestError"
            [] m \in {"Unexpected error occured while placing market order",
                      "Unexpected error placing limit order"} -> "UnexpectedError"
            [] OTHER -> "Unclassified"

ValidationKinds == {"InvalidSide", "InvalidSymbol", "InvalidQuantity",
                    "InvalidPrice", "InvalidTimeInForce"}

LoggedMsg(m) == \E i \in 1..Len(log) : log[i].msg = m

----------------------------------------------------------------------------
(* Claims *)

\* C1 (as stated): every order request submitted to the exchange by a place
\* handler has quantity > 0, price > 0 and stopPrice > 0 where present, side
\* BUY or SELL, timeInForce (where present) one of GTC, IOC, FOK, and a
\* symbol confirmed by the catalog fetched earlier in the same invocation.
C1_SubmittedOrderInvariants ==
  (Done /\ op \in PlaceOps) =>
    \A i \in CreateCalls :
      LET p == calls[i].params
      IN /\ p.quantity > 0
         /\ ("price" \in DOMAIN p => p.price > 0)
         /\ ("stopPrice" \in DOMAIN p => p.stopPrice > 0)
         /\ p.side \in {BUY, SELL}
         /\ ("timeInForce" \in DOMAIN p => p.timeInForce \in {FOK, GTC, IOC})
         /\ ConfirmedBefore(p.symbol, i)

\* C2 (as stated): place_market_order and place_limit_order with
\* quantity <= 0 fail with InvalidQuantity, whatever the other arguments and
\* the catalog, and submit no order.
C2_Original ==
  (Done /\ op \in {"place_market_order", "place_limit_order"}
        /\ args.quantity <= 0) =>
    (FailureKind = "InvalidQuantity" /\ CreateCalls = {})

\* C2 (amended): place_market_order and place_limit_order with quantity <= 0
\* return a failure and submit no order; the failure is InvalidQuantity when
\* the side is BUY or SELL (case-insensitively) and the symbol is confirmed
\* by the fetched catalog, and otherwise the earlier failing rule
\* (InvalidSide, then InvalidSymbol).
C2_NonPositiveQuantityNeverSubmitted ==
  (Done /\ op \in {"place_market_order", "place_limit_order"}
        /\ args.quantity <= 0) =>
    /\ ret = None
    /\ CreateCalls = {}
    /\ FailureKind = (IF ~CaseInsensitiveSide(args.side) THEN "InvalidSide"
                      ELSE IF ~Confirmed(args.symbol) THEN "InvalidSymbol"
                      ELSE "InvalidQuantity")

C2_Witness ==
  /\ Done
  /\ op = "place_limit_order"
  /\ args.quantity <= 0
  /\ args.price > 0
  /\ Confirmed(args.symbol)
  /\ FailureKind = "InvalidQuantity"

\* C3 (as stated): a symbol that no catalog of the exchange lists makes each
\* place handler fail with InvalidSymbol, whether or not side, quantity,
\* price and timeInForce are valid.
C3_Original ==
  (Done /\ op \in PlaceOps
        /\ \A info \in ExchangeInfoOutcomes : ~Listed(args.symbol, info)) =>
    FailureKind = "InvalidSymbol"

\* C3 (amended): when the side is BUY or SELL (case-insensitively), each
\* place handler fetches the catalog, and a symbol that the fetched catalog
\* does not list makes it fail with InvalidSymbol without submitting an
\* order, whether or not quantity, price and timeInForce are valid; with an
\* invalid side it fails with InvalidSide instead.
C3_UnlistedSymbolRejected ==
  (Done /\ op \in PlaceOps /\ ~Confirmed(args.symbol)) =>
    /\ CreateCalls = {}
    /\ IF CaseInsensitiveSide(args.side)
         THEN Cardinality(InfoCalls) = 1 /\ FailureKind = "InvalidSymbol"
         ELSE FailureKind = "InvalidSide"

C3_Witness ==
  /\ Done
  /\ op = "place_limit_order"
  /\ Cardinality(InfoCalls) = 1
  /\ ~Unusable(calls[1].outcome)
  /\ ~Confirmed(args.symbol)
  /\ args.quantity <= 0
  /\ ~CaseInsensitiveTif(args.time_in_force)
  /\ FailureKind = "InvalidSymbol"

\* C4 (as stated): place_limit_order and place_stop_limit_order whose
\* time_in_force, upper-cased, is not GTC, IOC or FOK fail with
\* InvalidTimeInForce and submit no order, given a valid side, a confirmed
\* symbol and positive numeric fields.
C4_InvalidTimeInForceRejected ==
  (Done /\ op \in {"place_limit_order", "place_stop_limit_order"}
        /\ ~CaseInsensitiveTif(args.time_in_force)
        /\ CaseInsensitiveSide(args.side)
        /\ Confirmed(args.symbol)
        /\ args.quantity > 0
        /\ (op = "place_limit_order" => args.price > 0)
        /\ (op = "place_stop_limit_order" =>
              args.stop_price > 0 /\ args.limit_price > 0)) =>
    (FailureKind = "InvalidTimeInForce" /\ CreateCalls = {})

\* C5 (as stated): when futures_create_order returns a response, the place
\* handler returns that response (never a failure), for all three order
\* kinds: the orderId is reported when present, else the algoId, else a
\* missing-identifier warning.
C5_AcceptedOrderReturned ==
  (Done /\ op \in PlaceOps) =>
    \A i \in CreateCalls :
      calls[i].outcome.kind = "return" =>
        LET order == calls[i].outcome.order
        IN /\ ret = Returned(order)
           /\ IF "orderId" \in DOMAIN order THEN LoggedMsg("Order ID")
              ELSE IF "algoId" \in DOMAIN order THEN LoggedMsg("Algo ID")
              ELSE LoggedMsg("Order placed but no orderId/algoId returned")

\* C6: in a place handler, when futures_exchange_info raises or returns an
\* unusable payload, the handler returns a failure (InvalidSymbol) and
\* issues no futures_create_order.
C6_FailClosedSymbolValidation ==
  (Done /\ op \in PlaceOps) =>
    \A j \in InfoCalls :
      Unusable(calls[j].outcome) =>
        /\ ret = None
        /\ FailureKind = "InvalidSymbol"
        /\ CreateCalls = {}

C6_Witness ==
  /\ Done
  /\ op = "place_stop_limit_order"
  /\ CaseInsensitiveSide(args.side)
  /\ Len(calls) = 1
  /\ calls[1].api = "futures_exchange_info"
  /\ calls[1].outcome.kind = "raise"
  /\ ret = None

\* C7: a side that is neither BUY nor SELL, compared case-insensitively,
\* makes each place handler fail with InvalidSide before the symbol lookup:
\* the invocation issues no client call at all.
C7_InvalidSideBeforeLookup ==
  (Done /\ op \in PlaceOps /\ ~CaseInsensitiveSide(args.side)) =>
    /\ ret = None
    /\ FailureKind = "InvalidSide"
    /\ calls = <<>>

C7_Witness ==
  /\ Done
  /\ op = "place_market_order"
  /\ ~CaseInsensitiveSide(args.side)
  /\ args.quantity > 0
  /\ FailureKind = "InvalidSide"

\* C8 (as stated): when futures_create_order raises BinanceAPIException, the
\* place handler of every order kind reports ApiError with the exchange's
\* code and message.
C8_ApiErrorClassified ==
  (Done /\ op \in PlaceOps) =>
    \A i \in CreateCalls :
      (calls[i].outcome.kind = "raise"
        /\ calls[i].outcome.exc = "BinanceAPIException") =>
        /\ ret = None
        /\ FailureKind = "ApiError"
        /\ log[Len(log)].detail =
             <<calls[i].outcome.code, calls[i].outcome.message>>

\* C9: one invocation of a place handler issues futures_create_order at most
\* once, whether it returns or raises, and exactly once when no validation
\* rule failed; the handler returns right after that call; one invocation
\* of cancel_order issues futures_cancel_order exactly once.
C9_NoRetries ==
  Done =>
    /\ op \in PlaceOps =>
         /\ Cardinality(CreateCalls) <= 1
         /\ (FailureKind \notin ValidationKinds => Cardinality(CreateCalls) = 1)
         /\ \A i \in CreateCalls : i = Len(calls)
         /\ CallsOf("futures_cancel_order") = {}
    /\ op = "cancel_order" =>
         /\ Len(calls) = 1
         /\ calls[1].api = "futures_cancel_order"

C9_Witness ==
  /\ Done
  /\ op = "place_market_order"
  /\ Cardinality(CreateCalls) = 1
  /\ \E i \in CreateCalls : calls[i].outcome.kind = "raise"
  /\ ret = None

\* C10: the payload passed to futures_create_order has exactly the fields
\* of its order kind: MARKET has symbol, side, type, quantity; LIMIT adds
\* price and timeInForce; STOP adds price, stopPrice and timeInForce, with
\* price equal to the limit_price argument and stopPrice equal to the
\* stop_price argument.
C10_PayloadFields ==
  (Done /\ op \in PlaceOps) =>
    \A i \in CreateCalls :
      LET p == calls[i].params
      IN /\ p.symbol = Upper(args.symbol)
         /\ p.side = Upper(args.side)
         /\ p.quantity = args.quantity
         /\ op = "place_market_order" =>
              /\ DOMAIN p = {"symbol", "side", "quantity", "type"}
              /\ p.type = "MARKET"
         /\ op = "place_limit_order" =>
              /\ DOMAIN p = {"symbol", "side", "quantity", "price", "type",
                             "timeInForce"}
              /\ p.type = "LIMIT"
              /\ p.price = args.price
              /\ p.timeInForce = Upper(args.time_in_force)
         /\ op = "place_stop_limit_order" =>
              /\ DOMAIN p = {"symbol", "side", "quantity", "price", "type",
                             "timeInForce", "stopPrice"}
              /\ p.type = "STOP"
              /\ p.price = args.limit_price
              /\ p.stopPrice = args.stop_price
              /\ p.timeInForce = Upper(args.time_in_force)

C10_Witness ==
  /\ Done
  /\ op = "place_stop_limit_order"
  /\ args.stop_price # args.limit_price
  /\ CreateCalls # {}

====
